---- MODULE Spec2Model ----
(***************************************************************************)
(* The convoy aggregate of the backend: the Convoy model (two variants of  *)
(* the model file are in the repository: src/src/models/Convoy.ts, which   *)
(* has a pre('save') hook and ownership transfer, and src/unnamed/part_002,*)
(* which has neither) and the request handlers of src/src/routes/          *)
(* convoys.ts that drive it.                                               *)
(*                                                                         *)
(* Every handler is asynchronous: it reads the convoy (findById), checks   *)
(* and mutates its own in-memory copy synchronously, and then awaits       *)
(* save(), which sends only the modified paths to the store.  A handler is *)
(* therefore modelled as its steps between awaits; under SpecSerial one    *)
(* request runs to its response before the next begins, under Spec the     *)
(* requests in flight interleave at their awaits.                          *)
(***************************************************************************)
EXTENDS Integers, Sequences, FiniteSets, TLC

VARIABLES
  variant,   \* which of the two Convoy model files the build holds
  convoys,   \* the convoys collection: convoy id -> stored document
  users,     \* the users collection: user id -> stored stats and location
  reqs,      \* request slot -> the handler invocation running in it
  now,       \* the last reading of the clock taken by `new Date()`
  issued     \* number of requests accepted so far

vars == <<variant, convoys, users, reqs, now, issued>>

(***************************************************************************)
(* Bounds of the model.                                                    *)
(***************************************************************************)
MaxRequests == 4     \* requests accepted in one run, one after another
MaxOverlapping == 3  \* requests accepted in one run when they may overlap
MaxInflight == 2     \* handler invocations that may overlap

Users == {"u1", "u2", "u3"}
\* the users who create convoys (users are interchangeable)
Creators == {"u1"}
\* the ids new convoys receive, in the order they are handed out
ConvoyIds == {"c1", "c2"}
Slots == 1..MaxInflight
Variants == {"Convoy_ts", "part_002"}

\* visibility enum
Visibilities == {"public", "invite", "private"}

\* maxMembers: { type: Number, min: 2, max: 50, default: 20 }
MinMaxMembers == 2
MaxMaxMembers == 50
\* the values of maxMembers the modelled requests ask for (all within 2..50
\* but the last, which the validation rejects)
MaxMembersInputs == {2, 3, 51}

\* join codes the generator may draw, and what a caller may type
JoinCodes == {"AB12"}
CodeInputs == {"AB12", "ab12", "ZZ99"}

\* An optional value is a set holding at most one element.
None == {}
Some(x) == {x}
IsSet(o) == o # {}

(***************************************************************************)
(* Location payloads (lat, lng, heading?, speed?, accuracy?).              *)
(***************************************************************************)
LocInputs ==
  { [lat |-> 40, lng |-> -74, heading |-> None,      speed |-> None,    accuracy |-> None],
    [lat |-> 41, lng |-> -73, heading |-> Some(361), speed |-> Some(5), accuracy |-> None] }

\* the payloads of the location requests: the two above, a full one, two
\* off the map, and one for each field the schema bounds
Loc(lat, lng, heading, speed, accuracy) ==
  [lat |-> lat, lng |-> lng, heading |-> heading, speed |-> speed, accuracy |-> accuracy]

LocationInputs ==
  LocInputs \cup
  { Loc(42, -72, Some(90), Some(5), Some(3)),
    Loc(91, -74, None, None, None),
    Loc(40, -181, None, None, None),
    Loc(40, -74, Some(0 - 1), None, None),
    Loc(40, -74, None, Some(0 - 1), None),
    Loc(40, -74, None, None, Some(0 - 1)) }

\* a schema that lets every payload through
updateLocationSchema_lax(b) == TRUE

\* updateLocationSchema / createConvoySchema.currentCenter
updateLocationSchema(b) ==
  /\ \A h \in b.heading : h >= 0 /\ h <= 360
  /\ \A s \in b.speed : s >= 0
  /\ \A a \in b.accuracy : a >= 0

NoCenter == [lat |-> 0, lng |-> 0, heading |-> None, speed |-> None,
             accuracy |-> None, updatedAt |-> None]

\* a convoy id under which nothing is stored
NoConvoy ==
  [ exists |-> FALSE, ownerId |-> "none", members |-> <<>>, isLive |-> FALSE,
    visibility |-> "public", maxMembers |-> 0, joinCode |-> None,
    route |-> None, currentCenter |-> NoCenter, startedAt |-> None, endedAt |-> None,
    deletedAt |-> None, v |-> 0 ]

NoUserLocation == [lat |-> 0, lng |-> 0, heading |-> None, speed |-> None]

\* an in-memory document: the loaded fields, the modified paths, and the
\* elements pushed onto members since the load
NoDoc == [id |-> "none", doc |-> NoConvoy, dirty |-> {}, push |-> <<>>]

NoBody ==
  [ maxMembers |-> None, visibility |-> None, loc |-> None, joinCode |-> None,
    route |-> None ]

\* the body of a join by code, and of a location report
JoinWith(k) == [NoBody EXCEPT !.joinCode = Some(k)]
LocationWith(l) == [NoBody EXCEPT !.loc = Some(l)]

IdleReq ==
  [ op |-> "none", user |-> "none", cid |-> "none", body |-> NoBody,
    pc |-> "idle", ds |-> NoDoc, resp |-> "none", found |-> {} ]

Init ==
  /\ variant \in Variants
  /\ convoys = [c \in ConvoyIds |-> NoConvoy]
  /\ users = [u \in Users |-> [convoysJoined |-> 0, location |-> NoUserLocation]]
  /\ reqs = [r \in Slots |-> IdleReq]
  /\ now = 1
  /\ issued = 0

(***************************************************************************)
(* The Convoy model: instance methods.  A method takes the in-memory       *)
(* document ds and returns it as the method leaves it, with `save` telling *)
(* whether the method went on to call this.save().                         *)
(***************************************************************************)

\* MongooseArray.includes / Array.some(id => id.equals(userId))
includes(members, userId) == \E i \in 1..Len(members) : members[i] = userId

\* members.filter(id => !id.equals(userId))
filterOut(members, userId) == SelectSeq(members, LAMBDA id : id # userId)

\* a membership check that takes every caller for a member
isMember_anyone(doc, userId) == TRUE

isMember(doc, userId) == includes(doc.members, userId)

\* an owner check that lets every caller through
isOwner_anyone(doc, userId) == TRUE

isOwner(doc, userId) == doc.ownerId = userId

DefaultMaxMembers == 20

\* this.members.push(userId): an atomic $push unless the array was replaced
pushMember(ds, userId) ==
  [ds EXCEPT !.doc.members = Append(@, userId),
             !.push = IF "members" \in ds.dirty THEN <<>> ELSE Append(@, userId)]

\* this.members = <array>: the whole path is marked modified
setMembers(ds, members) ==
  IF members = ds.doc.members THEN ds
  ELSE [ds EXCEPT !.doc.members = members, !.dirty = @ \cup {"members"}, !.push = <<>>]

addMember_Convoy_ts(ds, userId) ==
  LET cap == IF ds.doc.maxMembers = 0 THEN DefaultMaxMembers ELSE ds.doc.maxMembers
  IN [ ds |-> IF ~includes(ds.doc.members, userId) /\ Len(ds.doc.members) < cap
              THEN pushMember(ds, userId) ELSE ds,
       save |-> TRUE ]

addMember_part_002(ds, userId) ==
  IF ~isMember(ds.doc, userId) /\ Len(ds.doc.members) < ds.doc.maxMembers
  THEN [ds |-> pushMember(ds, userId), save |-> TRUE]
  ELSE [ds |-> ds, save |-> FALSE]

addMember(ds, userId) ==
  IF variant = "Convoy_ts" THEN addMember_Convoy_ts(ds, userId)
  ELSE addMember_part_002(ds, userId)

removeMember_Convoy_ts(ds, userId) ==
  LET d1 == setMembers(ds, filterOut(ds.doc.members, userId))
      \* If owner leaves and there are other members, transfer ownership
      d2 == IF d1.doc.ownerId = userId /\ Len(d1.doc.members) > 0
            THEN [d1 EXCEPT !.doc.ownerId = d1.doc.members[1],
                            !.dirty = @ \cup {"ownerId"}]
            ELSE d1
  IN [ds |-> d2, save |-> TRUE]

removeMember_part_002(ds, userId) ==
  [ds |-> setMembers(ds, filterOut(ds.doc.members, userId)), save |-> TRUE]

removeMember(ds, userId) ==
  IF variant = "Convoy_ts" THEN removeMember_Convoy_ts(ds, userId)
  ELSE removeMember_part_002(ds, userId)

\* a start that keeps the startedAt of the first start
startConvoy_keepsFirst(ds, t) ==
  [ ds |-> [ds EXCEPT !.doc.isLive = TRUE,
                      !.doc.startedAt = IF IsSet(@) THEN @ ELSE Some(t),
                      !.dirty = (@ \cup {"startedAt"})
                                 \cup (IF ds.doc.isLive THEN {} ELSE {"isLive"})],
    save |-> TRUE ]

\* isLive = true; startedAt = new Date(); save()   (the same in both variants)
startConvoy(ds, t) ==
  [ ds |-> [ds EXCEPT !.doc.isLive = TRUE, !.doc.startedAt = Some(t),
                      !.dirty = (@ \cup {"startedAt"})
                                 \cup (IF ds.doc.isLive THEN {} ELSE {"isLive"})],
    save |-> TRUE ]

\* isLive = false; endedAt = new Date(); save()    (the same in both variants)
endConvoy(ds, t) ==
  [ ds |-> [ds EXCEPT !.doc.isLive = FALSE, !.doc.endedAt = Some(t),
                      !.dirty = (@ \cup {"endedAt"})
                                 \cup (IF ds.doc.isLive THEN {"isLive"} ELSE {})],
    save |-> TRUE ]

\* currentCenter = { lat, lng, heading, speed, accuracy, updatedAt: new Date() }
updateLocation_Convoy_ts(ds, b, t) ==
  [ ds |-> [ds EXCEPT !.doc.currentCenter =
                        [lat |-> b.lat, lng |-> b.lng, heading |-> b.heading,
                         speed |-> b.speed, accuracy |-> b.accuracy,
                         updatedAt |-> Some(t)],
                      !.dirty = @ \cup {"currentCenter"}],
    save |-> TRUE ]

\* the same with ...(heading != null ? { heading } : {}) for the optional fields
updateLocation_part_002(ds, b, t) ==
  [ ds |-> [ds EXCEPT !.doc.currentCenter =
                        [lat |-> b.lat, lng |-> b.lng,
                         heading |-> IF IsSet(b.heading) THEN b.heading ELSE None,
                         speed |-> IF IsSet(b.speed) THEN b.speed ELSE None,
                         accuracy |-> IF IsSet(b.accuracy) THEN b.accuracy ELSE None,
                         updatedAt |-> Some(t)],
                      !.dirty = @ \cup {"currentCenter"}],
    save |-> TRUE ]

\* an updateLocation that keeps the previous value of a field not supplied
updateLocation_merge(ds, b, t) ==
  LET old == ds.doc.currentCenter
  IN [ ds |-> [ds EXCEPT !.doc.currentCenter =
                 [lat |-> b.lat, lng |-> b.lng,
                  heading |-> IF IsSet(b.heading) THEN b.heading ELSE old.heading,
                  speed |-> IF IsSet(b.speed) THEN b.speed ELSE old.speed,
                  accuracy |-> IF IsSet(b.accuracy) THEN b.accuracy ELSE old.accuracy,
                  updatedAt |-> Some(t)],
               !.dirty = @ \cup {"currentCenter"}],
       save |-> TRUE ]

updateLocation(ds, b, t) ==
  IF variant = "Convoy_ts" THEN updateLocation_Convoy_ts(ds, b, t)
  ELSE updateLocation_part_002(ds, b, t)

\* Convoy.ts: this.joinCode = <6 random characters>; return this.save()
\* (the save() it calls from inside the running save is refused and its
\* promise dropped: it writes nothing)
generateJoinCode(ds, code) ==
  [ds EXCEPT !.doc.joinCode = Some(code), !.dirty = @ \cup {"joinCode"}]

\* ConvoySchema.pre('save') of Convoy.ts; part_002 registers no hook
preSave_Convoy_ts(ds, code) ==
  LET \* Ensure owner is always a member
      d1 == IF ~includes(ds.doc.members, ds.doc.ownerId)
            THEN [ds EXCEPT !.doc.members = <<ds.doc.ownerId>> \o @,
                            !.dirty = @ \cup {"members"}, !.push = <<>>]
            ELSE ds
      \* Generate join code for invite-only convoys
      d2 == IF d1.doc.visibility = "invite" /\ ~IsSet(d1.doc.joinCode)
            THEN generateJoinCode(d1, code) ELSE d1
  IN d2

preSave(ds, code) ==
  IF variant = "Convoy_ts" THEN preSave_Convoy_ts(ds, code) ELSE ds

(***************************************************************************)
(* save(): the pre-save hook runs, then the modified paths are written.    *)
(* A replaced array is written with $set under the version the document    *)
(* was loaded with (a mismatch is a VersionError); pushed elements are     *)
(* written with $push onto the stored array; both increment __v.           *)
(***************************************************************************)
versionOk(db, ds) == ("members" \in ds.dirty) => db.v = ds.doc.v

\* the validators save() runs on the modified paths: ConvoyLocationSchema's
\* min and max (lat and lng have none) and those of maxMembers
validates(ds) ==
  /\ ("currentCenter" \in ds.dirty) => updateLocationSchema(ds.doc.currentCenter)
  /\ ("maxMembers" \in ds.dirty) =>
       ds.doc.maxMembers >= MinMaxMembers /\ ds.doc.maxMembers <= MaxMaxMembers

\* a joinCode path without the unique index
joinCodeFree_noIndex(cid, ds) == TRUE

\* joinCode: { unique: true, sparse: true }
joinCodeFree(cid, ds) ==
  ("joinCode" \in ds.dirty) =>
     \A o \in ConvoyIds \ {cid} : convoys[o].joinCode \cap ds.doc.joinCode = {}

Pick(f, ds, db) == IF f \in ds.dirty THEN ds.doc[f] ELSE db[f]

\* a save that writes the whole in-memory document over the stored one
persist_whole(db, ds) ==
  [ds.doc EXCEPT !.v = IF "members" \in ds.dirty \/ ds.push # <<>>
                       THEN db.v + 1 ELSE db.v]

\* a save that writes currentCenter field by field, and only the fields set
persist_fields(db, ds) ==
  LET old == db.currentCenter
      new == ds.doc.currentCenter
  IN [ exists |-> TRUE,
       ownerId |-> Pick("ownerId", ds, db),
       members |-> IF "members" \in ds.dirty THEN ds.doc.members
                   ELSE db.members \o ds.push,
       isLive |-> Pick("isLive", ds, db),
       visibility |-> Pick("visibility", ds, db),
       maxMembers |-> Pick("maxMembers", ds, db),
       joinCode |-> Pick("joinCode", ds, db),
       route |-> Pick("route", ds, db),
       currentCenter |->
         IF "currentCenter" \in ds.dirty
         THEN [ lat |-> new.lat, lng |-> new.lng,
                heading |-> IF IsSet(new.heading) THEN new.heading ELSE old.heading,
                speed |-> IF IsSet(new.speed) THEN new.speed ELSE old.speed,
                accuracy |-> IF IsSet(new.accuracy) THEN new.accuracy ELSE old.accuracy,
                updatedAt |-> new.updatedAt ]
         ELSE old,
       startedAt |-> Pick("startedAt", ds, db),
       endedAt |-> Pick("endedAt", ds, db),
       deletedAt |-> db.deletedAt,
       v |-> IF "members" \in ds.dirty \/ ds.push # <<>> THEN db.v + 1 ELSE db.v ]

persist(db, ds) ==
  [ exists |-> TRUE,
    ownerId |-> Pick("ownerId", ds, db),
    members |-> IF "members" \in ds.dirty THEN ds.doc.members
                ELSE db.members \o ds.push,
    isLive |-> Pick("isLive", ds, db),
    visibility |-> Pick("visibility", ds, db),
    maxMembers |-> Pick("maxMembers", ds, db),
    joinCode |-> Pick("joinCode", ds, db),
    route |-> Pick("route", ds, db),
    currentCenter |-> Pick("currentCenter", ds, db),
    startedAt |-> Pick("startedAt", ds, db),
    endedAt |-> Pick("endedAt", ds, db),
    deletedAt |-> db.deletedAt,
    v |-> IF "members" \in ds.dirty \/ ds.push # <<>> THEN db.v + 1 ELSE db.v ]

\* the in-memory document after a successful save
saved(ds) ==
  [ id |-> ds.id,
    doc |-> [ds.doc EXCEPT !.v = IF "members" \in ds.dirty \/ ds.push # <<>>
                                 THEN @ + 1 ELSE @],
    dirty |-> {}, push |-> <<>> ]

(***************************************************************************)
(* The Convoy model: static lookups.  Each returns the set of ids found    *)
(* (findOne: at most one; the others are excluded by the unique index).    *)
(***************************************************************************)

\* String.prototype.toUpperCase on the codes a caller may type
toUpperCase(code) == IF code = "ab12" THEN "AB12" ELSE code

\* Convoy.findById(id): no filter on deletedAt
findById(id) == {c \in ConvoyIds : c = id /\ convoys[c].exists}

\* Convoy.ts: findOne({ joinCode, isLive: true, deletedAt: null }).lean()
findByJoinCode_Convoy_ts(joinCode) ==
  {c \in ConvoyIds : /\ convoys[c].exists
                     /\ convoys[c].joinCode = Some(joinCode)
                     /\ convoys[c].isLive
                     /\ ~IsSet(convoys[c].deletedAt)}

\* part_002: findOne({ joinCode: code.toUpperCase(), deletedAt: null })
findByJoinCode_part_002(code) ==
  {c \in ConvoyIds : /\ convoys[c].exists
                     /\ convoys[c].joinCode = Some(toUpperCase(code))
                     /\ ~IsSet(convoys[c].deletedAt)}

findByJoinCode(code) ==
  IF variant = "Convoy_ts" THEN findByJoinCode_Convoy_ts(code)
  ELSE findByJoinCode_part_002(code)

\* Math.cos(lat * Math.PI / 180) as a fraction n/d, for the latitudes the
\* modelled queries are made at (the arithmetic is that of the reals)
Cos(lat) == IF lat = 60 THEN [n |-> 1, d |-> 2] ELSE [n |-> 1, d |-> 1]

Abs(x) == IF x < 0 THEN 0 - x ELSE x

\* Convoy.ts: isLive, visibility 'public', deletedAt null,
\* currentCenter.lat within lat -+ radiusKm / 111 and
\* currentCenter.lng within lng -+ radiusKm / (111 * cos(lat)), $gte and $lte
findNearbyConvoys_Convoy_ts(lat, lng, radiusKm) ==
  {c \in ConvoyIds :
     /\ convoys[c].exists /\ convoys[c].isLive
     /\ convoys[c].visibility = "public"
     /\ ~IsSet(convoys[c].deletedAt)
     /\ 111 * Abs(convoys[c].currentCenter.lat - lat) <= radiusKm
     /\ 111 * Cos(lat).n * Abs(convoys[c].currentCenter.lng - lng)
          <= radiusKm * Cos(lat).d}

\* part_002: delta = radiusKm / 111 for both; isLive, deletedAt null
findNearbyConvoys_part_002(lat, lng, radiusKm) ==
  {c \in ConvoyIds :
     /\ convoys[c].exists /\ convoys[c].isLive
     /\ ~IsSet(convoys[c].deletedAt)
     /\ 111 * Abs(convoys[c].currentCenter.lat - lat) <= radiusKm
     /\ 111 * Abs(convoys[c].currentCenter.lng - lng) <= radiusKm}

\* the convoys that match, before .sort() and .limit()
findNearbyConvoys(lat, lng, radiusKm) ==
  IF variant = "Convoy_ts" THEN findNearbyConvoys_Convoy_ts(lat, lng, radiusKm)
  ELSE findNearbyConvoys_part_002(lat, lng, radiusKm)

\* Convoy.ts: find({ isLive: true, visibility: 'public', deletedAt: null });
\* part_002: find({ isLive: true, deletedAt: null })
findLiveConvoys ==
  {c \in ConvoyIds :
     /\ convoys[c].exists /\ convoys[c].isLive
     /\ ~IsSet(convoys[c].deletedAt)
     /\ variant = "Convoy_ts" => convoys[c].visibility = "public"}

\* .sort({ 'currentCenter.updatedAt': -1 }).limit(limit) of Convoy.ts keeps
\* the most recently updated; part_002 sorts the nearby convoys by nothing
limited(matches, limit, res) ==
  /\ res \subseteq matches
  /\ Cardinality(res) = IF Cardinality(matches) <= limit
                        THEN Cardinality(matches) ELSE limit
  /\ variant = "Convoy_ts" =>
       \A x \in res, y \in matches \ res :
         \A a \in convoys[x].currentCenter.updatedAt,
            b \in convoys[y].currentCenter.updatedAt : a >= b

\* .lean() gives a plain object: it has the fields and none of the methods
isLean == variant = "Convoy_ts"

load(c) == [id |-> c, doc |-> convoys[c], dirty |-> {}, push |-> <<>>]

(***************************************************************************)
(* Request handlers (src/src/routes/convoys.ts).                           *)
(***************************************************************************)

\* a slot is free for the next request
Free(r) == reqs[r].pc = "idle"

\* new Date(): a reading of the clock, later than the reading before it
Date == now + 1

\* the handler answers and ends; the slot keeps whose request it was and
\* the answer until the next request takes the slot
Respond(q, code) ==
  [ op |-> q.op, user |-> q.user, cid |-> q.cid, body |-> NoBody,
    pc |-> "idle", ds |-> NoDoc, resp |-> code, found |-> {} ]

\* a query answers with the convoys it found
RespondWith(q, code, found) == [Respond(q, code) EXCEPT !.found = found]

\* the handler goes on to await save() on its document
AwaitSave(q, ds) == [q EXCEPT !.pc = "save", !.ds = ds, !.resp = "none"]

Request(op, user, cid, body) ==
  [ op |-> op, user |-> user, cid |-> cid, body |-> body,
    pc |-> "idle", ds |-> NoDoc, resp |-> "none", found |-> {} ]

createConvoySchema(body) ==
  /\ \A m \in body.maxMembers : m >= MinMaxMembers /\ m <= MaxMaxMembers
  /\ \A l \in body.loc : updateLocationSchema(l)

\* POST /convoys: the document is built and inserted by one save()
PostConvoys(r, userId, body, code) ==
  /\ Free(r)
  /\ IsSet(body.visibility) /\ IsSet(body.maxMembers) /\ IsSet(body.loc)
  /\ ~IsSet(body.joinCode)
  /\ issued' = issued + 1
  /\ LET q == Request("create", userId, "none", body)
         t == Date
         free == {c \in ConvoyIds : ~convoys[c].exists}
         first == IF "c1" \in free THEN {"c1"} ELSE free
     IN IF ~createConvoySchema(body)
        THEN /\ reqs' = [reqs EXCEPT ![r] = Respond(q, "VALIDATION_ERROR")]
             /\ UNCHANGED <<convoys, now>>
        ELSE /\ free # {}
             /\ LET c == CHOOSE x \in first : TRUE
                    l == CHOOSE x \in body.loc : TRUE
                    fresh ==
                      [ id |-> c,
                        doc |-> [ exists |-> TRUE, ownerId |-> userId,
                                  members |-> <<userId>>, isLive |-> FALSE,
                                  visibility |-> CHOOSE x \in body.visibility : TRUE,
                                  maxMembers |-> CHOOSE x \in body.maxMembers : TRUE,
                                  joinCode |-> None,
                                  route |-> body.route,
                                  currentCenter |->
                                    [lat |-> l.lat, lng |-> l.lng, heading |-> l.heading,
                                     speed |-> l.speed, accuracy |-> l.accuracy,
                                     updatedAt |-> Some(t)],
                                  startedAt |-> None, endedAt |-> None,
                                  deletedAt |-> None, v |-> 0 ],
                        dirty |-> {}, push |-> <<>> ]
                    ds == preSave(fresh, code)
                IN IF validates(ds) /\ joinCodeFree(c, ds)
                   THEN /\ convoys' = [convoys EXCEPT ![c] = ds.doc]
                        /\ reqs' = [reqs EXCEPT ![r] = Respond([q EXCEPT !.cid = c], "CREATED")]
                        /\ now' = t
                   ELSE /\ reqs' = [reqs EXCEPT ![r] = Respond(q, "INTERNAL_ERROR")]
                        /\ UNCHANGED <<convoys, now>>
  /\ UNCHANGED <<variant, users>>

\* Object.assign(convoy, updates): a path is modified when its value changes
assign(ds, body) ==
  LET d1 == IF IsSet(body.maxMembers) /\ body.maxMembers # {ds.doc.maxMembers}
            THEN [ds EXCEPT !.doc.maxMembers = CHOOSE x \in body.maxMembers : TRUE,
                            !.dirty = @ \cup {"maxMembers"}]
            ELSE ds
      d2 == IF IsSet(body.visibility) /\ body.visibility # {d1.doc.visibility}
            THEN [d1 EXCEPT !.doc.visibility = CHOOSE x \in body.visibility : TRUE,
                            !.dirty = @ \cup {"visibility"}]
            ELSE d1
      d3 == IF IsSet(body.route) /\ body.route # d2.doc.route
            THEN [d2 EXCEPT !.doc.route = body.route, !.dirty = @ \cup {"route"}]
            ELSE d2
  IN d3

\* PATCH /convoys/:id
PatchConvoy(r, userId, id, body) ==
  /\ Free(r)
  /\ ~IsSet(body.loc) /\ ~IsSet(body.joinCode)
  /\ issued' = issued + 1
  /\ LET q == Request("patch", userId, id, body)
         found == findById(id)
     IN reqs' = [reqs EXCEPT ![r] =
          IF ~createConvoySchema(body) THEN Respond(q, "VALIDATION_ERROR")
          ELSE IF found = {} THEN Respond(q, "CONVOY_NOT_FOUND")
          ELSE LET ds == load(CHOOSE c \in found : TRUE)
               IN IF ~isOwner(ds.doc, userId) THEN Respond(q, "ACCESS_DENIED")
                  ELSE AwaitSave(q, assign(ds, body))]
  /\ UNCHANGED <<variant, convoys, users, now>>

\* a visibility check that asks a code of private convoys instead
inviteRequired_private(doc, body) ==
  doc.visibility = "private" /\ ~IsSet(body.joinCode)

\* join: if (convoy.visibility === 'invite' && !joinCode)
inviteRequired(doc, body) ==
  doc.visibility = "invite" /\ ~IsSet(body.joinCode)

\* a lookup that goes by the id of the request whatever the body carries
lookup_byId(id, body) == [ids |-> findById(id), lean |-> FALSE]

\* join: if (joinCode) Convoy.findByJoinCode(joinCode) else Convoy.findById(id);
\* what is found is a document, or a plain object when the query is lean
lookup(id, body) ==
  IF IsSet(body.joinCode)
  THEN [ids |-> findByJoinCode(CHOOSE x \in body.joinCode : TRUE), lean |-> isLean]
  ELSE [ids |-> findById(id), lean |-> FALSE]

\* POST /convoys/:id/join
PostJoin(r, userId, id, body) ==
  /\ Free(r)
  /\ ~IsSet(body.loc) /\ ~IsSet(body.maxMembers) /\ ~IsSet(body.visibility)
  /\ ~IsSet(body.route)
  /\ issued' = issued + 1
  /\ LET q == Request("join", userId, id, body)
         looked == lookup(id, body)
         found == looked.ids
     IN reqs' = [reqs EXCEPT ![r] =
          IF found = {}
          THEN Respond(q, IF IsSet(body.joinCode) THEN "INVALID_JOIN_CODE"
                          ELSE "CONVOY_NOT_FOUND")
          ELSE IF looked.lean
          \* convoy.isMember is not a function
          THEN Respond(q, "INTERNAL_ERROR")
          ELSE LET ds == load(CHOOSE c \in found : TRUE)
               IN \* Check if already a member
                  IF isMember(ds.doc, userId) THEN Respond(q, "ALREADY_MEMBER")
                  \* Check convoy capacity
                  ELSE IF Len(ds.doc.members) >= ds.doc.maxMembers
                  THEN Respond(q, "CONVOY_FULL")
                  \* Check visibility
                  ELSE IF inviteRequired(ds.doc, body)
                  THEN Respond(q, "INVITE_REQUIRED")
                  ELSE LET m == addMember(ds, userId)
                       IN IF m.save THEN AwaitSave(q, m.ds)
                          ELSE [q EXCEPT !.pc = "stat", !.ds = m.ds]]
  /\ UNCHANGED <<variant, convoys, users, now>>

\* POST /convoys/:id/leave
PostLeave(r, userId, id) ==
  /\ Free(r)
  /\ issued' = issued + 1
  /\ LET q == Request("leave", userId, id, NoBody)
         found == findById(id)
     IN reqs' = [reqs EXCEPT ![r] =
          IF found = {} THEN Respond(q, "CONVOY_NOT_FOUND")
          ELSE LET ds == load(CHOOSE c \in found : TRUE)
               IN IF ~isMember(ds.doc, userId) THEN Respond(q, "NOT_MEMBER")
                  ELSE AwaitSave(q, removeMember(ds, userId).ds)]
  /\ UNCHANGED <<variant, convoys, users, now>>

\* POST /convoys/:id/start
PostStart(r, userId, id) ==
  /\ Free(r)
  /\ issued' = issued + 1
  /\ LET q == Request("start", userId, id, NoBody)
         t == Date
         found == findById(id)
         ok == found # {} /\ isOwner(convoys[id], userId)
     IN /\ reqs' = [reqs EXCEPT ![r] =
             IF found = {} THEN Respond(q, "CONVOY_NOT_FOUND")
             ELSE LET ds == load(CHOOSE c \in found : TRUE)
                  IN IF ~isOwner(ds.doc, userId) THEN Respond(q, "ACCESS_DENIED")
                     ELSE AwaitSave(q, startConvoy(ds, t).ds)]
        /\ now' = IF ok THEN t ELSE now
  /\ UNCHANGED <<variant, convoys, users>>

\* POST /convoys/:id/end
PostEnd(r, userId, id) ==
  /\ Free(r)
  /\ issued' = issued + 1
  /\ LET q == Request("end", userId, id, NoBody)
         t == Date
         found == findById(id)
         ok == found # {} /\ isOwner(convoys[id], userId)
     IN /\ reqs' = [reqs EXCEPT ![r] =
             IF found = {} THEN Respond(q, "CONVOY_NOT_FOUND")
             ELSE LET ds == load(CHOOSE c \in found : TRUE)
                  IN IF ~isOwner(ds.doc, userId) THEN Respond(q, "ACCESS_DENIED")
                     ELSE AwaitSave(q, endConvoy(ds, t).ds)]
        /\ now' = IF ok THEN t ELSE now
  /\ UNCHANGED <<variant, convoys, users>>

\* POST /convoys/:id/location
PostLocation(r, userId, id, body) ==
  /\ Free(r)
  /\ IsSet(body.loc)
  /\ ~IsSet(body.joinCode) /\ ~IsSet(body.maxMembers) /\ ~IsSet(body.visibility)
  /\ ~IsSet(body.route)
  /\ issued' = issued + 1
  /\ LET q == Request("location", userId, id, body)
         t == Date
         b == CHOOSE x \in body.loc : TRUE
         found == findById(id)
         ok == updateLocationSchema(b) /\ found # {} /\ isMember(convoys[id], userId)
     IN /\ reqs' = [reqs EXCEPT ![r] =
             IF ~updateLocationSchema(b) THEN Respond(q, "VALIDATION_ERROR")
             ELSE IF found = {} THEN Respond(q, "CONVOY_NOT_FOUND")
             ELSE LET ds == load(CHOOSE c \in found : TRUE)
                  IN IF ~isMember(ds.doc, userId) THEN Respond(q, "ACCESS_DENIED")
                     ELSE AwaitSave(q, updateLocation(ds, b, t).ds)]
        /\ now' = IF ok THEN t ELSE now
  /\ UNCHANGED <<variant, convoys, users>>

(***************************************************************************)
(* The queries: each reads the store once and answers.                     *)
(***************************************************************************)

\* GET /convoys: nearby convoys when lat and lng are given, live ones otherwise
GetConvoys(r, query) ==
  /\ Free(r)
  /\ issued' = issued + 1
  /\ LET q == Request("list", "none", "none", NoBody)
         matches == IF IsSet(query.at)
                    THEN LET at == CHOOSE x \in query.at : TRUE
                         IN findNearbyConvoys(at.lat, at.lng, query.radius)
                    ELSE findLiveConvoys
     IN \E res \in SUBSET matches :
          /\ limited(matches, query.limit, res)
          /\ reqs' = [reqs EXCEPT ![r] = RespondWith(q, "OK", res)]
  /\ UNCHANGED <<variant, convoys, users, now>>

\* GET /convoys/:id: findById(id).lean(); a private convoy is shown to its
\* members only
GetConvoy(r, userId, id) ==
  /\ Free(r)
  /\ issued' = issued + 1
  /\ LET q == Request("get", userId, id, NoBody)
         found == findById(id)
     IN reqs' = [reqs EXCEPT ![r] =
          IF found = {} THEN Respond(q, "CONVOY_NOT_FOUND")
          ELSE IF /\ convoys[id].visibility = "private"
                  /\ ~includes(convoys[id].members, userId)
          THEN Respond(q, "ACCESS_DENIED")
          ELSE RespondWith(q, "OK", found)]
  /\ UNCHANGED <<variant, convoys, users, now>>

\* GET /convoys/join/:joinCode
GetByJoinCode(r, userId, code) ==
  /\ Free(r)
  /\ issued' = issued + 1
  /\ LET q == Request("code", userId, "none", NoBody)
         found == findByJoinCode(code)
     IN reqs' = [reqs EXCEPT ![r] =
          IF found = {} THEN Respond(q, "INVALID_JOIN_CODE")
          ELSE RespondWith(q, "OK", found)]
  /\ UNCHANGED <<variant, convoys, users, now>>

\* the soft delete of the lifecycle: the convoy is marked and kept.  No
\* handler of the routes performs it; it is taken between requests
SoftDelete(c) ==
  /\ \A s \in Slots : reqs[s].pc = "idle"
  /\ convoys[c].exists /\ ~IsSet(convoys[c].deletedAt)
  /\ convoys' = [convoys EXCEPT ![c].deletedAt = Some(Date)]
  /\ now' = Date
  /\ UNCHANGED <<variant, users, reqs, issued>>

(***************************************************************************)
(* The awaited steps of a handler.                                         *)
(***************************************************************************)

\* await convoy.save() resolves or rejects; the handler continues from it
Save(r, code) ==
  /\ reqs[r].pc \in {"save", "save2"}
  /\ LET q == reqs[r]
         t == Date
         c == q.ds.id
         db == convoys[c]
         ds == preSave(q.ds, code)
         after == saved(ds)
         \* leave: if (convoy.members.length === 0) await convoy.endConvoy()
         forced == q.op = "leave" /\ q.pc = "save" /\ Len(after.doc.members) = 0
     IN IF validates(ds) /\ versionOk(db, ds) /\ joinCodeFree(c, ds)
        THEN /\ convoys' = [convoys EXCEPT ![c] = persist(db, ds)]
             /\ reqs' = [reqs EXCEPT ![r] =
                  CASE q.op = "join" -> [q EXCEPT !.pc = "stat", !.ds = after]
                    [] q.op = "location" -> [q EXCEPT !.pc = "userloc", !.ds = after]
                    [] forced -> [q EXCEPT !.pc = "save2", !.ds = endConvoy(after, t).ds]
                    [] OTHER -> Respond(q, "OK")]
             /\ now' = IF forced THEN t ELSE now
        ELSE \* the rejection is caught by the handler's catch block
             /\ reqs' = [reqs EXCEPT ![r] = Respond(q, "INTERNAL_ERROR")]
             /\ UNCHANGED <<convoys, now>>
  /\ UNCHANGED <<variant, users, issued>>

\* join: await User.findByIdAndUpdate(userId, { $inc: { 'stats.convoysJoined': 1 } })
IncConvoysJoined(r) ==
  /\ reqs[r].pc = "stat"
  /\ users' = [users EXCEPT ![reqs[r].user].convoysJoined = @ + 1]
  /\ reqs' = [reqs EXCEPT ![r] = Respond(reqs[r], "OK")]
  /\ UNCHANGED <<variant, convoys, now, issued>>

\* location: await User.findByIdAndUpdate(userId, { $set: { 'location.lat': ...,
\* 'location.heading': locationData.heading, ... } }).  A key whose value is
\* undefined is dropped from the update by some versions of the driver
\* layer (keep) and stored as null by others.
SetUserLocation(r, keep) ==
  /\ reqs[r].pc = "userloc"
  /\ LET q == reqs[r]
         b == CHOOSE x \in q.body.loc : TRUE
         old == users[q.user].location
     IN users' = [users EXCEPT ![q.user].location =
          [ lat |-> b.lat, lng |-> b.lng,
            heading |-> IF ~IsSet(b.heading) /\ keep THEN old.heading ELSE b.heading,
            speed |-> IF ~IsSet(b.speed) /\ keep THEN old.speed ELSE b.speed ]]
  /\ reqs' = [reqs EXCEPT ![r] = Respond(reqs[r], "OK")]
  /\ UNCHANGED <<variant, convoys, now, issued>>

\* an awaited call to the store rejects (the connection drops, the call
\* times out): nothing is written by it and the handler's catch block
\* answers 500
Reject(r) ==
  /\ reqs[r].pc \in {"save", "save2", "stat", "userloc"}
  /\ reqs' = [reqs EXCEPT ![r] = Respond(reqs[r], "INTERNAL_ERROR")]
  /\ UNCHANGED <<variant, convoys, users, now, issued>>

(***************************************************************************)
(* Request bodies the callers send.                                        *)
(***************************************************************************)
Opt(S) == {None} \cup {Some(x) : x \in S}

CreateBodies ==
  [ maxMembers : {Some(m) : m \in MaxMembersInputs},
    visibility : {Some(x) : x \in Visibilities},
    loc : {Some(l) : l \in LocInputs}, joinCode : {None}, route : {None} ]

\* an edit changes maxMembers or visibility (or nothing)
PatchBodies ==
  {b \in [ maxMembers : Opt(MaxMembersInputs), visibility : Opt(Visibilities),
           loc : {None}, joinCode : {None}, route : {None} ] :
     b.maxMembers = None \/ b.visibility = None}

JoinBodies ==
  [ maxMembers : {None}, visibility : {None}, loc : {None}, joinCode : Opt(CodeInputs),
    route : {None} ]

LocationBodies ==
  [ maxMembers : {None}, visibility : {None},
    loc : {Some(l) : l \in LocInputs}, joinCode : {None}, route : {None} ]

\* one request at a time: the next is accepted when the last has answered
Alone(r) == r = 1 /\ \A s \in Slots : reqs[s].pc = "idle"

Admit(serial, r) ==
  IF serial THEN Alone(r) /\ issued < MaxRequests ELSE issued < MaxOverlapping

\* the requests callers send one after another
SerialInputs ==
  [ ids |-> {"c1"},
    create |-> CreateBodies, patch |-> PatchBodies, join |-> JoinBodies,
    location |-> LocationBodies ]

\* the requests callers send while others are in flight: joins by id and
\* edits of maxMembers on public and private convoys
OverlapInputs ==
  [ ids |-> {"c1"},
    create |-> {b \in CreateBodies : /\ b.visibility # Some("invite")
                                     /\ b.maxMembers \subseteq {2, 3}
                                     /\ \A l \in b.loc : updateLocationSchema(l)},
    patch |-> {b \in PatchBodies : /\ b.visibility = None
                                   /\ b.maxMembers \in {Some(2), Some(3)}},
    join |-> {b \in JoinBodies : b.joinCode = None},
    location |-> LocationBodies ]

\* the callers create no more convoys than the ids in.ids, and address those
Room(in, body) ==
  createConvoySchema(body) => \E c \in in.ids : ~convoys[c].exists

\* the requests callers send one after another when two convoys exist:
\* public and invite convoys of two seats, joins by id and by code
PairInputs ==
  [ ids |-> ConvoyIds,
    create |-> {b \in CreateBodies : /\ b.visibility # Some("private")
                                     /\ b.maxMembers = Some(2)
                                     /\ \A l \in b.loc : updateLocationSchema(l)},
    patch |-> {b \in PatchBodies : b.visibility = Some("invite")},
    join |-> JoinBodies,
    location |-> {b \in LocationBodies : \A l \in b.loc : updateLocationSchema(l)} ]

\* the requests callers send one after another while they report where they
\* are: a public convoy of two seats, joins by id, every location payload
LocationSerialInputs ==
  [ ids |-> {"c1"},
    create |-> {b \in CreateBodies : /\ b.visibility = Some("public")
                                     /\ b.maxMembers = Some(2)
                                     /\ b.loc = Some(Loc(40, -74, None, None, None))},
    patch |-> {b \in PatchBodies : b.maxMembers = Some(3)},
    join |-> {b \in JoinBodies : b.joinCode = None},
    location |-> [ maxMembers : {None}, visibility : {None},
                   loc : {Some(l) : l \in LocationInputs}, joinCode : {None}, route : {None} ] ]

\* the requests callers send while others are in flight and members report
\* where they are: a full payload and a bare one
RaceInputs ==
  [ ids |-> {"c1"},
    create |-> LocationSerialInputs.create,
    patch |-> LocationSerialInputs.patch,
    join |-> LocationSerialInputs.join,
    location |-> {b \in LocationSerialInputs.location :
                    b.loc \in {Some(Loc(42, -72, Some(90), Some(5), Some(3))),
                               Some(Loc(40, -74, None, None, None))}} ]

Handler(serial, r, in) ==
  \/ \E u \in Creators, b \in in.create, k \in JoinCodes :
       Admit(serial, r) /\ Room(in, b) /\ PostConvoys(r, u, b, k)
  \/ \E u \in Users, c \in in.ids, b \in in.patch :
       Admit(serial, r) /\ PatchConvoy(r, u, c, b)
  \/ \E u \in Users, c \in in.ids, b \in in.join :
       Admit(serial, r) /\ PostJoin(r, u, c, b)
  \/ \E u \in Users, c \in in.ids :
       Admit(serial, r) /\ PostLeave(r, u, c)
  \/ \E u \in Users, c \in in.ids :
       Admit(serial, r) /\ PostStart(r, u, c)
  \/ \E u \in Users, c \in in.ids :
       Admit(serial, r) /\ PostEnd(r, u, c)
  \/ \E u \in Users, c \in in.ids, b \in in.location :
       Admit(serial, r) /\ PostLocation(r, u, c, b)

Await(r) ==
  \/ \E k \in JoinCodes : Save(r, k)
  \/ IncConvoysJoined(r)
  \/ \E keep \in BOOLEAN : SetUserLocation(r, keep)

\* requests overlap: a handler is accepted whenever a slot is free
Next == \E r \in Slots : Handler(FALSE, r, OverlapInputs) \/ Await(r)

NextSerial == \E r \in Slots : Handler(TRUE, r, SerialInputs) \/ Await(r)

Spec == Init /\ [][Next]_vars

SpecSerial == Init /\ [][NextSerial]_vars

NextLocation == \E r \in Slots : Handler(TRUE, r, LocationSerialInputs) \/ Await(r)

SpecLocation == Init /\ [][NextLocation]_vars

NextPair == \E r \in Slots : Handler(TRUE, r, PairInputs) \/ Await(r)

SpecPair == Init /\ [][NextPair]_vars

NextRace == \E r \in Slots : Handler(FALSE, r, RaceInputs) \/ Await(r)

SpecRace == Init /\ [][NextRace]_vars

\* the searches callers make: around (60, 6), (0, 10) and (60, 5) with a
\* radius of 222 km, and the list of live convoys
NearbyQueries ==
  { [at |-> Some([lat |-> 60, lng |-> 6]), radius |-> 222, limit |-> 20],
    [at |-> Some([lat |-> 0, lng |-> 10]), radius |-> 222, limit |-> 20],
    [at |-> Some([lat |-> 60, lng |-> 5]), radius |-> 222, limit |-> 20],
    [at |-> None, radius |-> 50, limit |-> 50] }

\* the requests callers send one after another around the queries: convoys
\* of two seats created at (60, 10) or (2, 10), joins by id and by code
QueryInputs ==
  [ ids |-> {"c1"},
    create |-> [ maxMembers : {Some(2)}, visibility : {Some("public"), Some("invite")},
                 loc : {Some(Loc(60, 10, None, None, None)),
                        Some(Loc(2, 10, None, None, None))},
                 joinCode : {None}, route : {None} ],
    patch |-> {b \in PatchBodies : b.maxMembers = Some(3)},
    join |-> JoinBodies,
    location |-> {LocationWith(Loc(2, 10, None, None, None))} ]

Query(r) ==
  \/ \E q \in NearbyQueries : Admit(TRUE, r) /\ GetConvoys(r, q)
  \/ \E u \in Users, c \in QueryInputs.ids : Admit(TRUE, r) /\ GetConvoy(r, u, c)
  \/ \E u \in Users, k \in CodeInputs : Admit(TRUE, r) /\ GetByJoinCode(r, u, k)

NextQueries ==
  \/ \E r \in Slots : Handler(TRUE, r, QueryInputs) \/ Await(r) \/ Query(r)
  \/ \E c \in QueryInputs.ids : SoftDelete(c)

SpecQueries == Init /\ [][NextQueries]_vars

\* the requests callers send one after another to a store whose calls may
\* fail: a public convoy of two seats, joins by id, one location payload
FaultInputs ==
  [ ids |-> {"c1"},
    create |-> LocationSerialInputs.create,
    patch |-> LocationSerialInputs.patch,
    join |-> LocationSerialInputs.join,
    location |-> {LocationWith(Loc(42, -72, Some(90), Some(5), Some(3)))} ]

NextFaulty ==
  \E r \in Slots : Handler(TRUE, r, FaultInputs) \/ Await(r) \/ Reject(r)

SpecFaulty == Init /\ [][NextFaulty]_vars

\* the requests callers send one after another around the edits: a public
\* convoy of two seats created with or without a route, edits of the route
\* (r1, r2; title and description travel the same way), of the visibility
\* or of maxMembers, joins by id
EditInputs ==
  [ ids |-> {"c1"},
    create |-> [ maxMembers : {Some(2)}, visibility : {Some("public")},
                 loc : {Some(Loc(40, -74, None, None, None))},
                 joinCode : {None}, route : {None, Some("r1")} ],
    patch |-> { [NoBody EXCEPT !.route = Some("r2")],
                [NoBody EXCEPT !.route = Some("r1"), !.maxMembers = Some(3)],
                [NoBody EXCEPT !.visibility = Some("private")] },
    join |-> {NoBody},
    location |-> {LocationWith(Loc(40, -74, None, None, None))} ]

NextEdit == \E r \in Slots : Handler(TRUE, r, EditInputs) \/ Await(r)

SpecEdit == Init /\ [][NextEdit]_vars

\* a leave, start or end accepted while another request is in flight
Overlapped(r, in) ==
  \/ \E u \in Users, c \in in.ids : issued < MaxRequests /\ PostLeave(r, u, c)
  \/ \E u \in Users, c \in in.ids : issued < MaxRequests /\ PostStart(r, u, c)
  \/ \E u \in Users, c \in in.ids : issued < MaxRequests /\ PostEnd(r, u, c)

\* requests sent one after another, but for leaves, starts and ends, which
\* may arrive while a request is in flight
NextTransfer ==
  \E r \in Slots : Handler(TRUE, r, FaultInputs) \/ Await(r) \/ Overlapped(r, FaultInputs)

SpecTransfer == Init /\ [][NextTransfer]_vars

(***************************************************************************)
(* Properties.                                                             *)
(***************************************************************************)
Existing == {c \in ConvoyIds : convoys[c].exists}

\* slot r holds a request of kind op that is still running
Running(r, op) == reqs[r].op = op /\ reqs[r].pc # "idle"

\* slot r holds a request of kind op that has been answered with resp
Answered(r, op, resp) ==
  reqs[r].op = op /\ reqs[r].pc = "idle" /\ reqs[r].resp = resp

\* this step is the one in which the request of kind op in slot r is answered OK
AnswersOk(r, op) == Running(r, op) /\ Answered(r, op, "OK")'

\* C1: in every reachable state the owner of a convoy is one of its members.
C1_OwnerIsMember ==
  \A c \in Existing : includes(convoys[c].members, convoys[c].ownerId)

\* C2: while two joins by different users are in flight together on a
\* convoy with maxMembers = 2, each having found one member and added its
\* caller, they never both have their member written (after which the
\* handler can only answer OK), and the convoy never holds more members than
\* maxMembers.
JoinRacing(r, c) ==
  /\ reqs[r].op = "join" /\ reqs[r].pc \in {"save", "stat"}
  /\ reqs[r].ds.id = c
  /\ reqs[r].ds.doc.maxMembers = 2
  /\ Len(reqs[r].ds.doc.members) = 2

JoinSucceeded(r) == reqs[r].op = "join" /\ reqs[r].pc = "stat"

C2_OneJoinWins ==
  \A c \in Existing, r1, r2 \in Slots :
    (/\ r1 # r2 /\ reqs[r1].user # reqs[r2].user
     /\ JoinRacing(r1, c) /\ JoinRacing(r2, c)
     /\ convoys[c].maxMembers = 2)
      => /\ ~(JoinSucceeded(r1) /\ JoinSucceeded(r2))
         /\ Len(convoys[c].members) <= convoys[c].maxMembers

\* C3: requests served one after another never leave a convoy with more
\* members than its maxMembers.
C3_WithinCapacity ==
  \A c \in Existing : Len(convoys[c].members) <= convoys[c].maxMembers

\* C4: when a leave that takes the last member out of a convoy is answered
\* OK, the convoy is not live and its endedAt is set.
C4_LastLeaveEnds ==
  [][\A r \in Slots :
       (AnswersOk(r, "leave") /\ Len(reqs[r].ds.doc.members) = 0)
         => LET c == reqs[r].ds.id
            IN ~convoys'[c].isLive /\ IsSet(convoys'[c].endedAt)]_vars

\* C5: when a leave is answered OK, the caller is no longer a member.
C5_LeaverRemoved ==
  [][\A r \in Slots :
       AnswersOk(r, "leave")
         => ~isMember(convoys'[reqs[r].ds.id], reqs[r].user)]_vars

\* C6: when the owner's leave is written while other members remain, the
\* earliest-joined remaining member becomes owner and the members are the
\* previous members without the departed owner, in the same order.
C6_OwnershipTransfers ==
  [][\A r \in Slots :
       LET c == reqs[r].ds.id
           u == reqs[r].user
           rest == filterOut(convoys[c].members, u)
       IN (/\ AnswersOk(r, "leave")
           /\ convoys[c].ownerId = u /\ isMember(convoys[c], u)
           /\ Len(rest) > 0)
            => /\ convoys'[c].ownerId = rest[1]
               /\ convoys'[c].members = rest]_vars

\* C7: a start or end request by a user who is not the convoy's owner is
\* answered ACCESS_DENIED and changes nothing of the convoy.
C7_NonOwnerDenied ==
  [][\A r \in Slots, u \in Users, c \in Existing :
       (convoys[c].ownerId # u /\ (PostStart(r, u, c) \/ PostEnd(r, u, c)))
         => /\ reqs'[r].pc = "idle" /\ reqs'[r].resp = "ACCESS_DENIED"
            /\ convoys' = convoys]_vars

C7_Witness ==
  \E r \in Slots, c \in Existing :
    /\ reqs[r].op \in {"start", "end"} /\ reqs[r].cid = c
    /\ reqs[r].pc = "idle" /\ reqs[r].resp = "ACCESS_DENIED"
    \* the caller is the creator, who owned the convoy and owns it no more
    /\ reqs[r].user \in Creators /\ convoys[c].ownerId # reqs[r].user

\* C8: the owner's start is accepted whatever the convoy's state, and when
\* it is written the convoy is live with startedAt the time of this start.
C8_StartRestarts ==
  [][/\ \A r \in Slots, u \in Users, c \in Existing :
          (convoys[c].ownerId = u /\ PostStart(r, u, c))
            => reqs'[r].pc = "save" /\ reqs'[r].ds.doc.startedAt = Some(now')
     /\ \A r \in Slots :
          (Running(r, "start") /\ reqs'[r].pc = "idle")
            => LET c == reqs[r].ds.id
               IN /\ reqs'[r].resp = "OK"
                  /\ convoys'[c].isLive
                  /\ convoys'[c].startedAt = reqs[r].ds.doc.startedAt]_vars

\* started, ended, and started again at a later time
C8_Witness ==
  \E r \in Slots, c \in Existing :
    /\ Answered(r, "start", "OK") /\ reqs[r].cid = c
    /\ convoys[c].isLive
    /\ \E s \in convoys[c].startedAt, e \in convoys[c].endedAt : s > e

\* C9: a live convoy has startedAt set, and a convoy that is not live and
\* has endedAt set has startedAt <= endedAt.
C9_LiveWindow ==
  \A c \in Existing :
    /\ convoys[c].isLive => IsSet(convoys[c].startedAt)
    /\ (~convoys[c].isLive /\ IsSet(convoys[c].endedAt))
         => /\ IsSet(convoys[c].startedAt)
            /\ \A s \in convoys[c].startedAt, e \in convoys[c].endedAt : s <= e

\* C10: a join by id without a code, by a non-member, on an invite convoy
\* below capacity is answered INVITE_REQUIRED and changes nothing.
C10_InviteRequired ==
  [][\A r \in Slots, u \in Users, c \in Existing :
       (/\ convoys[c].visibility = "invite"
        /\ ~isMember(convoys[c], u)
        /\ Len(convoys[c].members) < convoys[c].maxMembers
        /\ PostJoin(r, u, c, NoBody))
         => /\ reqs'[r].pc = "idle" /\ reqs'[r].resp = "INVITE_REQUIRED"
            /\ convoys' = convoys /\ users' = users]_vars

C10_Witness ==
  \E r \in Slots, c \in Existing :
    /\ Answered(r, "join", "INVITE_REQUIRED") /\ reqs[r].cid = c
    /\ convoys[c].visibility = "invite"
    /\ ~isMember(convoys[c], reqs[r].user)
    /\ Len(convoys[c].members) < convoys[c].maxMembers

\* C11: a join that carries the join code of an invite convoy that is not
\* deleted, by a user who is not a member, while the convoy is below
\* capacity, passes every check of the handler whether the convoy is live or
\* not: the handler goes on to write the caller as a member of that convoy.
C11_CodeJoinSucceeds ==
  [][\A r \in Slots, u \in Users, c \in Existing, id \in ConvoyIds, k \in JoinCodes :
       (/\ convoys[c].visibility = "invite" /\ convoys[c].joinCode = Some(k)
        /\ ~IsSet(convoys[c].deletedAt)
        /\ ~isMember(convoys[c], u)
        /\ Len(convoys[c].members) < convoys[c].maxMembers
        /\ PostJoin(r, u, id, JoinWith(k)))
         => /\ reqs'[r].pc = "save" /\ reqs'[r].ds.id = c
            /\ isMember(reqs'[r].ds.doc, u)]_vars

\* C12: a join by id without a code on a convoy whose visibility is not
\* public is refused by the handler: it writes nothing and adds no member.
C12_JoinByIdPublicOnly ==
  [][\A r \in Slots, u \in Users, c \in Existing :
       (/\ convoys[c].visibility # "public"
        /\ ~isMember(convoys[c], u)
        /\ PostJoin(r, u, c, NoBody))
         => /\ reqs'[r].pc = "idle" /\ reqs'[r].resp # "OK"
            /\ convoys' = convoys]_vars

\* C13: a join that carries a join code goes to the convoy that owns the
\* code whatever the id of the request names: if the handler goes on to
\* write, it writes to the convoy that owns the code, and when the write is
\* done the caller is a member of that convoy and every other convoy is as
\* it was.
Owns(c, k) == convoys[c].joinCode \in {Some(k), Some(toUpperCase(k))}

\* this step takes into slot r a request of kind op by u that names id
Asks(r, op, u, id) ==
  /\ issued' = issued + 1
  /\ reqs'[r].op = op /\ reqs'[r].user = u /\ reqs'[r].cid = id

JoinNames(c, id, body) ==
  \/ ~IsSet(body.joinCode) /\ id = c
  \/ IsSet(body.joinCode) /\ convoys[c].joinCode = body.joinCode

C14_AlreadyMember ==
  [][\A r \in Slots, u \in Users, c \in Existing, id \in ConvoyIds, b \in JoinBodies :
       (/\ isMember(convoys[c], u) /\ JoinNames(c, id, b)
        /\ Asks(r, "join", u, id) /\ PostJoin(r, u, id, b))
         => /\ reqs'[r].pc = "idle" /\ reqs'[r].resp = "ALREADY_MEMBER"
            /\ convoys' = convoys /\ users' = users]_vars

\* C15: a location request with a well-formed payload by a user who is not
\* a member of the convoy is answered ACCESS_DENIED and changes neither the
\* convoy nor any user's stored location.
C15_NonMemberLocationDenied ==
  [][\A r \in Slots, u \in Users, c \in Existing, l \in LocationInputs :
       (/\ ~includes(convoys[c].members, u)
        /\ l.heading \subseteq 0..360
        /\ \A x \in l.speed \cup l.accuracy : x >= 0
        /\ Asks(r, "location", u, c) /\ PostLocation(r, u, c, LocationWith(l)))
         => /\ reqs'[r].pc = "idle" /\ reqs'[r].resp = "ACCESS_DENIED"
            /\ convoys' = convoys /\ users' = users]_vars

\* a non-member has been refused while a member's report stands in the convoy
C15_Witness ==
  \E r \in Slots, c \in Existing :
    /\ Answered(r, "location", "ACCESS_DENIED") /\ reqs[r].cid = c
    /\ ~includes(convoys[c].members, reqs[r].user)
    /\ users[reqs[r].user].location = NoUserLocation
    /\ \E m \in Users : /\ includes(convoys[c].members, m)
                         /\ users[m].location.lat = convoys[c].currentCenter.lat
                         /\ users[m].location.lat # 0

\* C16: a location request whose heading is outside 0..360, or whose speed
\* or accuracy is negative, is answered VALIDATION_ERROR and changes
\* nothing of the convoy.
BadMotion(l) ==
  \/ \E h \in l.heading : h < 0 \/ h > 360
  \/ \E x \in l.speed \cup l.accuracy : x < 0

C16_BadMotionRejected ==
  [][\A r \in Slots, u \in Users, c \in Existing, l \in LocationInputs :
       (BadMotion(l) /\ Asks(r, "location", u, c)
        /\ PostLocation(r, u, c, LocationWith(l)))
         => /\ reqs'[r].pc = "idle" /\ reqs'[r].resp = "VALIDATION_ERROR"
            /\ convoys' = convoys /\ users' = users]_vars

\* a member of the convoy has been refused for the payload
C16_Witness ==
  \E r \in Slots, c \in Existing :
    /\ Answered(r, "location", "VALIDATION_ERROR") /\ reqs[r].cid = c
    /\ includes(convoys[c].members, reqs[r].user)

\* C17: a location request whose lat is outside -90..90 or whose lng is
\* outside -180..180 is answered VALIDATION_ERROR and changes nothing of the
\* convoy, and every stored currentCenter lies within those ranges.
OffMap(l) == l.lat < 0 - 90 \/ l.lat > 90 \/ l.lng < 0 - 180 \/ l.lng > 180

C17_OffMapRejected ==
  [][/\ \A r \in Slots, u \in Users, c \in Existing, l \in LocationInputs :
          (OffMap(l) /\ Asks(r, "location", u, c)
           /\ PostLocation(r, u, c, LocationWith(l)))
            => /\ reqs'[r].pc = "idle" /\ reqs'[r].resp = "VALIDATION_ERROR"
               /\ convoys' = convoys
     /\ \A c \in ConvoyIds :
          convoys'[c].exists => ~OffMap(convoys'[c].currentCenter)]_vars

\* C18: when the save of a location request succeeds, the stored
\* currentCenter is the request's payload and nothing else: lat and lng as
\* supplied, heading, speed and accuracy as supplied or absent, and an
\* updatedAt later than the one it replaces.
Snapshot(l, at) ==
  [lat |-> l.lat, lng |-> l.lng, heading |-> l.heading, speed |-> l.speed,
   accuracy |-> l.accuracy, updatedAt |-> at]

C18_WholeReplace ==
  [][\A r \in Slots :
       (/\ Running(r, "location") /\ reqs[r].pc = "save"
        /\ reqs'[r].pc = "userloc")
         => LET c == reqs[r].cid
                old == convoys[c].currentCenter
                new == convoys'[c].currentCenter
            IN /\ \E l \in reqs[r].body.loc : new = Snapshot(l, new.updatedAt)
               /\ IsSet(new.updatedAt)
               /\ \A o \in old.updatedAt, n \in new.updatedAt : n > o]_vars

\* a bare payload has replaced a centre that carried a heading: the caller's
\* own record still shows the heading of the earlier request
C18_Witness ==
  \E r \in Slots, c \in Existing :
    /\ Running(r, "location") /\ reqs[r].pc = "userloc" /\ reqs[r].cid = c
    /\ reqs[r].body.loc = Some(Loc(40, -74, None, None, None))
    /\ users[reqs[r].user].location.heading = Some(90)
    /\ convoys[c].currentCenter.heading = None

\* C19: with location requests in flight together, every change of a
\* convoy's currentCenter is the save of one location request and stores
\* that request's complete snapshot: its payload and its timestamp, with no
\* field of another request or of the centre it replaces.
C19_NoTornCentre ==
  [][\A c \in Existing :
       convoys'[c].currentCenter # convoys[c].currentCenter
         => \E r \in Slots :
              /\ Running(r, "location") /\ reqs[r].pc = "save" /\ reqs[r].cid = c
              /\ reqs'[r].pc = "userloc"
              /\ \E l \in reqs[r].body.loc :
                   convoys'[c].currentCenter
                     = Snapshot(l, reqs[r].ds.doc.currentCenter.updatedAt)]_vars

\* two location requests with different payloads are in flight together and
\* both have been written: the one taken first was written last
C19_Witness ==
  \E r \in Slots, s \in Slots, c \in Existing :
    /\ r # s
    /\ Running(r, "location") /\ reqs[r].pc = "userloc" /\ reqs[r].cid = c
    /\ Running(s, "location") /\ reqs[s].pc = "userloc" /\ reqs[s].cid = c
    /\ reqs[r].body.loc # reqs[s].body.loc
    /\ convoys[c].currentCenter = reqs[r].ds.doc.currentCenter
    /\ \E a \in reqs[r].ds.doc.currentCenter.updatedAt,
          b \in reqs[s].ds.doc.currentCenter.updatedAt : a < b

\* C20: a create by user u that succeeds stores a new convoy with ownerId u,
\* members exactly u, isLive false and no startedAt or endedAt; and when the
\* visibility asked for is invite the stored convoy has a join code.
C20_CreateYields ==
  [][\A r \in Slots, u \in Creators, b \in CreateBodies, k \in JoinCodes :
       (/\ issued' = issued + 1 /\ reqs'[r].op = "create" /\ reqs'[r].user = u
        /\ reqs'[r].resp = "CREATED"
        /\ PostConvoys(r, u, b, k))
         => LET c == reqs'[r].cid
                d == convoys'[c]
            IN /\ c \in ConvoyIds /\ ~convoys[c].exists /\ d.exists
               /\ d.ownerId = u /\ d.members = <<u>> /\ ~d.isLive
               /\ d.startedAt = None /\ d.endedAt = None
               /\ b.visibility = Some("invite") => IsSet(d.joinCode)]_vars

\* C21: in every reachable state a convoy that is not deleted has a join
\* code if and only if its visibility is invite, whatever creates and owner
\* edits of the visibility came before.
C21_CodeIffInvite ==
  \A c \in Existing :
    ~IsSet(convoys[c].deletedAt)
      => (IsSet(convoys[c].joinCode) <=> convoys[c].visibility = "invite")

\* C22: in every reachable state no two different convoys that are not
\* deleted hold the same join code: a save whose generated code is already
\* held by another convoy is not persisted.
C22_CodesDistinct ==
  \A c \in Existing, o \in Existing :
    (c # o /\ ~IsSet(convoys[c].deletedAt) /\ ~IsSet(convoys[o].deletedAt))
      => convoys[c].joinCode \cap convoys[o].joinCode = {}

\* an edit to invite drew the code another convoy holds and was refused: the
\* edited convoy is left without a code
C22_Witness ==
  \E r \in Slots, c \in Existing, o \in Existing :
    /\ c # o
    /\ Answered(r, "patch", "INTERNAL_ERROR") /\ reqs[r].cid = o
    /\ reqs[r].user = convoys[o].ownerId
    /\ IsSet(convoys[c].joinCode) /\ ~IsSet(convoys[o].joinCode)
    /\ convoys[o].visibility # "invite"

\* C23: a nearby search returns only convoys that are live, not deleted and
\* inside the box lat -+ radiusKm/111, lng -+ radiusKm/(111 cos(lat)); and a
\* live convoy that is not deleted and lies exactly on the edge of that box
\* is among those returned.
InBox(c, at, radiusKm) ==
  /\ 111 * Abs(convoys[c].currentCenter.lat - at.lat) <= radiusKm
  /\ 111 * Cos(at.lat).n * Abs(convoys[c].currentCenter.lng - at.lng)
       <= radiusKm * Cos(at.lat).d

OnEdge(c, at, radiusKm) ==
  /\ InBox(c, at, radiusKm)
  /\ \/ 111 * Abs(convoys[c].currentCenter.lat - at.lat) = radiusKm
     \/ 111 * Cos(at.lat).n * Abs(convoys[c].currentCenter.lng - at.lng)
          = radiusKm * Cos(at.lat).d

C23_NearbyBox ==
  [][\A r \in Slots, q \in NearbyQueries : \A at \in q.at :
       (/\ issued' = issued + 1 /\ reqs'[r].op = "list"
        /\ GetConvoys(r, q))
         => /\ \A c \in reqs'[r].found :
                 /\ convoys[c].isLive /\ ~IsSet(convoys[c].deletedAt)
                 /\ InBox(c, at, q.radius)
            /\ \A c \in Existing :
                 (/\ convoys[c].isLive /\ ~IsSet(convoys[c].deletedAt)
                  /\ OnEdge(c, at, q.radius))
                   => c \in reqs'[r].found]_vars

\* C24: for a live convoy that is not deleted and holds join code C, a
\* lookup by join code of any upper- or lower-case spelling of C returns that
\* convoy, and a lookup of a string that differs from C by more than case
\* does not return it.
C24_CodeCaseInsensitive ==
  [][\A r \in Slots, u \in Users, k \in CodeInputs, c \in Existing, C \in JoinCodes :
       (/\ convoys[c].joinCode = Some(C) /\ convoys[c].isLive
        /\ ~IsSet(convoys[c].deletedAt)
        /\ issued' = issued + 1 /\ reqs'[r].op = "code" /\ reqs'[r].user = u
        /\ GetByJoinCode(r, u, k))
         => IF toUpperCase(k) = toUpperCase(C)
            THEN reqs'[r].resp = "OK" /\ reqs'[r].found = {c}
            ELSE c \notin reqs'[r].found]_vars

\* C25: once a convoy's deletedAt is set no step changes the stored convoy,
\* no list, nearby or join-code lookup returns it, and a get, join, leave,
\* start, end or location request addressed to it is answered as not found.
C25_DeletedIsGone ==
  [][\A c \in Existing :
       IsSet(convoys[c].deletedAt)
         => /\ convoys'[c] = convoys[c]
            /\ \A r \in Slots :
                 issued' = issued + 1
                   => /\ c \notin reqs'[r].found
                      /\ (/\ reqs'[r].cid = c
                          /\ reqs'[r].op \in {"get", "join", "leave", "start",
                                               "end", "location"})
                           => /\ reqs'[r].pc = "idle"
                              /\ reqs'[r].resp \in {"CONVOY_NOT_FOUND",
                                                     "INVALID_JOIN_CODE"}]_vars

\* C26: a join, leave, start, end, location or edit request that is answered
\* with an error has applied nothing: the step that answers the error writes
\* neither the convoys nor the users, and the request has not written before
\* it (a request awaiting its stats increment, its user-location write or
\* its forced end has had its first write applied).
Errors ==
  {"VALIDATION_ERROR", "CONVOY_NOT_FOUND", "INVALID_JOIN_CODE", "ACCESS_DENIED",
   "ALREADY_MEMBER", "CONVOY_FULL", "INVITE_REQUIRED", "NOT_MEMBER",
   "INTERNAL_ERROR"}

C26_ErrorsApplyNothing ==
  [][\A r \in Slots :
       (/\ reqs'[r] # reqs[r] /\ reqs'[r].pc = "idle"
        /\ reqs'[r].op \in {"join", "leave", "start", "end", "location", "patch"}
        /\ reqs'[r].resp \in Errors)
         => /\ convoys' = convoys /\ users' = users
            /\ reqs[r].pc \notin {"stat", "userloc", "save2"}]_vars

\* C27: an edit request by a user who is not the convoy's owner is answered
\* ACCESS_DENIED and changes nothing of the convoy; and the route, the
\* visibility and maxMembers of a convoy change only in the save of an edit
\* request made by the user who owns the convoy.
C27_OnlyOwnerEdits ==
  [][/\ \A r \in Slots, u \in Users, c \in Existing, b \in EditInputs.patch :
          (convoys[c].ownerId # u /\ Asks(r, "patch", u, c)
           /\ PatchConvoy(r, u, c, b))
            => /\ reqs'[r].pc = "idle" /\ reqs'[r].resp = "ACCESS_DENIED"
               /\ convoys' = convoys
     /\ \A c \in Existing :
          (\/ convoys'[c].route # convoys[c].route
           \/ convoys'[c].visibility # convoys[c].visibility
           \/ convoys'[c].maxMembers # convoys[c].maxMembers)
            => \E r \in Slots :
                 /\ Running(r, "patch") /\ reqs[r].pc = "save" /\ reqs[r].cid = c
                 /\ reqs[r].user = convoys[c].ownerId
                 /\ reqs'[r].pc = "idle" /\ reqs'[r].resp = "OK"]_vars

\* the creator, who owned the convoy and has left it to another member, has
\* been refused an edit of the convoy, which has a route
C27_Witness ==
  \E r \in Slots, c \in Existing :
    /\ Answered(r, "patch", "ACCESS_DENIED") /\ reqs[r].cid = c
    /\ reqs[r].user \in Creators /\ convoys[c].ownerId # reqs[r].user
    /\ IsSet(convoys[c].route)

\* C28: in every reachable state no user appears twice in a convoy's
\* members, and two join requests of one user for one convoy that are in
\* flight together are never both about to increment the user's
\* convoysJoined counter.
C28_MembersIsASet ==
  /\ \A c \in Existing :
       \A i \in 1..Len(convoys[c].members), j \in 1..Len(convoys[c].members) :
         i # j => convoys[c].members[i] # convoys[c].members[j]
  /\ \A r1 \in Slots, r2 \in Slots :
       (/\ r1 # r2 /\ reqs[r1].user = reqs[r2].user
        /\ reqs[r1].cid = reqs[r2].cid)
         => ~(JoinSucceeded(r1) /\ JoinSucceeded(r2))

\* C29: the save of a location request leaves the stored members, ownerId,
\* isLive, startedAt and endedAt as they are at that moment, whatever a
\* join, leave, start or end wrote after the location request loaded the
\* convoy.
C29_LocationWritesOnlyCentre ==
  [][\A r \in Slots :
       (/\ Running(r, "location") /\ reqs[r].pc = "save"
        /\ reqs'[r].pc = "userloc")
         => \A f \in {"members", "ownerId", "isLive", "startedAt", "endedAt"} :
              convoys'[reqs[r].ds.id][f] = convoys[reqs[r].ds.id][f]]_vars

\* a location request has been written whose copy of the convoy was loaded
\* before another request's write: the stored members or isLive are not
\* those of its copy, and both writes stand
C29_Witness ==
  \E r \in Slots, c \in Existing :
    /\ Running(r, "location") /\ reqs[r].pc = "userloc" /\ reqs[r].ds.id = c
    /\ convoys[c].currentCenter = reqs[r].ds.doc.currentCenter
    /\ \/ convoys[c].members # reqs[r].ds.doc.members
       \/ convoys[c].isLive # reqs[r].ds.doc.isLive

\* C30: when the save of a start or end request changes a convoy's isLive,
\* the user who made the request is the convoy's owner as stored at that
\* moment.
C30_OwnerAtWrite ==
  [][\A r \in Slots :
       (/\ reqs[r].op \in {"start", "end"} /\ reqs[r].pc = "save"
        /\ reqs'[r].pc = "idle"
        /\ convoys'[reqs[r].ds.id].isLive # convoys[reqs[r].ds.id].isLive)
         => reqs[r].user = convoys[reqs[r].ds.id].ownerId]_vars

====
